---------------------------- MODULE Spec2Model ----------------------------
(***************************************************************************)
(* Model of execute_test/main.py: VelocityTestNode and main().             *)
(*                                                                         *)
(* Three kinds of thread run in the program:                               *)
(*   - the main thread (main(): spin loop, then the finally block),        *)
(*   - the interface thread (user_interface(), a daemon thread),           *)
(*   - one worker thread per test (publish_velocity()).                    *)
(*                                                                         *)
(* Time is counted in units of 0.05 s, so the loop's sleep of 0.1 s is     *)
(* Tick = 2 units and a duration such as 0.15 s falls between two ticks.   *)
(* Numbers typed at the console are kept in the same scale (1.0 = 20).     *)
(*                                                                         *)
(* The command channel (rclpy publisher) is outside the repository: a      *)
(* publish on a context that was shut down or on a destroyed node raises   *)
(* (rcl reports "publisher's context is invalid"), and a publish on an     *)
(* open channel either succeeds or, at most MaxFaults times, raises.       *)
(*                                                                         *)
(* CPython raises KeyboardInterrupt in the main thread only, so the        *)
(* handlers of lines 114, 138, 162 and 213, which run on the interface     *)
(* thread, are never entered; the interrupt is modelled where it lands,    *)
(* in main()'s spin loop (line 231).                                       *)
(***************************************************************************)
EXTENDS Integers, Sequences, FiniteSets, TLC

\* ------------------------------------------------------------- bounds
MaxSessions == 2      \* worker threads the interface may start
MaxJitter   == 2      \* extra units a sleep may last beyond its nominal length
MaxFaults   == 1      \* publishes on an open channel that may raise
MaxFed      == 4      \* console lines remembered by the collector history
MaxClock    == 8      \* the timed loop's clock reading is kept within this
MaxMotions  == 3      \* motion commands remembered per worker

\* ---------------------------------------------------- program constants
Tick      == 2        \* sleep_time = 1.0 / rate, rate = 10 Hz     (0.1 s)
StopCount == 5        \* for _ in range(5)

VARIABLES
  main_pc,        \* position of main(): "spin", "stop", "destroy", "shutdown", "exited"
  main_i,         \* stop_robot loop index of the main thread
  main_sent,      \* code sites of the commands the main thread wrote to the channel
  ui_pc,          \* position of user_interface()
  test_mode,      \* self.test_mode
  velocity,       \* local of get_*_test_parameters
  duration,       \* local of get_*_test_parameters
  fed,            \* history: console lines consumed by the current collector call
  workers,        \* worker threads, by index 1..MaxSessions; sent lists the code
                  \* sites ("motion", "stop") of the commands the worker wrote
  nworkers,       \* number of worker threads started
  is_publishing,  \* self.is_publishing
  twist_msg,      \* self.twist_msg (linear.x, angular.z)
  ui_lock,        \* holder of self.ui_lock: "free", "ui" or "worker"
  console,        \* last console write: who, what, under the lock or not
  ctx_ok,         \* rclpy.ok()
  node_destroyed, \* node.destroy_node() has run
  shutdown_calls, \* number of rclpy.shutdown() calls
  chan_last,      \* last command accepted by the channel
  faults,         \* publishes on an open channel that raised
  interrupted,    \* "no", or where the interface thread stood when SIGINT was
                  \* delivered: "collecting" (inside get_*_test_parameters) or "other"
  exited          \* the process has exited

vars == << main_pc, main_i, main_sent, ui_pc, test_mode, velocity, duration, fed,
           workers, nworkers, is_publishing, twist_msg, ui_lock, console, ctx_ok,
           node_destroyed, shutdown_calls, chan_last, faults, interrupted, exited >>

\* --------------------------------------------------------------- values
Num(n)   == [k |-> "num", v |-> n]
NaN      == [k |-> "nan", v |-> 0]
None     == [k |-> "none", v |-> 0]
Inf      == [k |-> "inf", v |-> 0]
ParseErr == [k |-> "err", v |-> 0]

IsNum(x)  == x.k = "num"
IsZero(x) == x.k = "num" /\ x.v = 0

\* float(s) for the console lines of the model; anything else raises ValueError.
ParseFloat(s) ==
  CASE s = "0"    -> Num(0)
    [] s = "-1"   -> Num(-20)
    [] s = "0.15" -> Num(3)
    [] s = "0.2"  -> Num(4)
    [] s = "2.5"  -> Num(50)
    [] s = "3.0"  -> Num(60)
    [] s = "nan"  -> NaN
    [] s = "inf"  -> Inf
    [] OTHER      -> ParseErr

\* Python's `duration <= 0`: False for NaN.
LeZero(d) == d.k = "num" /\ d.v <= 0

\* Python's `(time.time() - start_time) < duration`: False for NaN, True for inf.
ElapsedLe(e, d) == (d.k = "num" /\ e <= d.v) \/ d.k = "inf"
ElapsedLt(e, d) == (d.k = "num" /\ e < d.v) \/ d.k = "inf"

\* input(...).strip() at the mode prompt.
Strip(s) ==
  CASE s = " 1" -> "1"
    [] OTHER    -> s

\* input(...).strip().lower() at the continue prompt.
StripLower(s) ==
  CASE s = " Y"   -> "y"
    [] s = "YES"  -> "yes"
    [] OTHER      -> s

\* Console lines the model types at each prompt.
ModeLines     == {" 1", "2", "3", "x"}
VelocityLines == {"abc", "-1", "0"}
DurationLines == {"abc", "0", "0.15", "0.2", "nan"}
LiteralLines  == {"abc", "3.0", "-1", "2.5"}
ContinueLines == {" Y", "YES", "n"}
EndlessLines  == {"0.15", "inf"}

\* ------------------------------------------------------------- commands
Cmd(by, site, lin, ang) == [by |-> by, site |-> site, lin |-> lin, ang |-> ang]
\* by: 0 is the main thread, w >= 1 the worker of session w.
NoCmd == Cmd(-1, "none", None, None)

IsZeroCmd(c) == IsZero(c.lin) /\ IsZero(c.ang)

Say(by, msg, locked) == [by |-> by, msg |-> msg, locked |-> locked]

NoWorker == [pc |-> "none", lin |-> None, ang |-> None, dur |-> None,
             elapsed |-> 0, i |-> 0, sent |-> << >>,
             jit |-> FALSE, reported |-> -1, busy |-> FALSE, exit |-> "none",
             hit |-> FALSE]

WorkerIds == 1..MaxSessions

\* What is left of a worker once its thread has ended: its locals are gone,
\* the commands it wrote and the way it ended remain.
Ended(rec, how) ==
  [NoWorker EXCEPT !.pc = IF how = "error" THEN "dead" ELSE "done",
                   !.sent = rec.sent, !.busy = rec.busy, !.hit = rec.hit,
                   !.exit = IF how = "error" THEN "error" ELSE rec.exit]

\* A worker two sessions back: nothing of it is kept.
Forgotten == [NoWorker EXCEPT !.pc = "gone"]

Alive(w) == workers[w].pc \notin {"none", "done", "dead", "gone"}

\* The publisher accepts a write only on a live context and a live node.
ChannelOpen == ctx_ok /\ ~node_destroyed

\* Outcomes of self.cmd_vel_publisher.publish(msg).
PublishOutcomes ==
  IF ~ChannelOpen THEN {"raise"}
  ELSE IF faults < MaxFaults THEN {"ok", "raise"}
  ELSE {"ok"}

\* time.sleep(0.1): at least Tick, at most Tick + MaxJitter.
SleepLengths == {Tick + j : j \in 0..MaxJitter}

\* The clock reading and the record of motion commands of a loop that runs
\* without end are kept finite: the reading wraps around at MaxClock (the
\* condition of such a loop does not depend on it) and the record stops
\* growing at MaxMotions.  A loop with a finite duration ends below both.
ClockAfter(e, s) == IF e + s > MaxClock THEN e + s - MaxClock ELSE e + s
Recorded(seq, site) == IF Len(seq) < MaxMotions THEN Append(seq, site) ELSE seq

\* ----------------------------------------------------------------- Init
Init ==
  /\ main_pc = "spin"
  /\ main_i = 0
  /\ main_sent = << >>
  /\ ui_pc = "mode"
  /\ test_mode = "None"
  /\ velocity = None
  /\ duration = None
  /\ fed = << >>
  /\ workers = [w \in WorkerIds |-> NoWorker]
  /\ nworkers = 0
  /\ is_publishing = FALSE
  /\ twist_msg = [lin |-> Num(0), ang |-> Num(0)]
  /\ ui_lock = "free"
  /\ console = Say("main", "Velocity Test Node initialized", FALSE)
  /\ ctx_ok = TRUE
  /\ node_destroyed = FALSE
  /\ shutdown_calls = 0
  /\ chan_last = NoCmd
  /\ faults = 0
  /\ interrupted = "no"
  /\ exited = FALSE


\* ------------------------------------------------- worker: publish_velocity
StopMsgMoving == [lin |-> Num(20), ang |-> Num(0)]
StopMsg == [lin |-> Num(0), ang |-> Num(0)]

\* self.twist_msg.linear.x = linear_vel; ...; self.twist_msg.angular.z = angular_vel
TwistSwapped(linear_vel, angular_vel) == [lin |-> angular_vel, ang |-> linear_vel]
TwistOf(linear_vel, angular_vel) == [lin |-> linear_vel, ang |-> angular_vel]

\* self.is_publishing = True; self.twist_msg... = linear_vel, angular_vel
WBegin(w) ==
  /\ ~exited
  /\ workers[w].pc = "begin"
  /\ is_publishing' = TRUE
  /\ twist_msg' = TwistOf(workers[w].lin, workers[w].ang)
  /\ workers' = [workers EXCEPT ![w].pc = "announce"]
  /\ UNCHANGED << main_pc, main_i, main_sent, ui_pc, test_mode, velocity, duration,
                  fed, nworkers, ui_lock, console, ctx_ok, node_destroyed,
                  shutdown_calls, chan_last, faults, interrupted, exited >>

\* with self.ui_lock: print(start line); start_time = time.time()
WAnnounce(w) ==
  /\ ~exited
  /\ workers[w].pc = "announce"
  /\ ui_lock = "free"
  /\ console' = Say("worker", "Test in progress", TRUE)
  /\ workers' = [workers EXCEPT ![w].pc = "loop", ![w].elapsed = 0]
  /\ UNCHANGED << main_pc, main_i, main_sent, ui_pc, test_mode, velocity, duration,
                  fed, nworkers, is_publishing, twist_msg, ui_lock, ctx_ok,
                  node_destroyed, shutdown_calls, chan_last, faults, interrupted,
                  exited >>

\* while (time.time() - start_time) < duration and self.is_publishing
LoopCondition(w) ==
  ElapsedLt(workers[w].elapsed, workers[w].dur) /\ is_publishing

\* One iteration of the timed loop: publish(self.twist_msg); time.sleep(sleep_time).
\* A publish that raises ends the thread: publish_velocity has no handler.
WLoopIter(w) ==
  /\ ~exited
  /\ workers[w].pc = "loop"
  /\ LoopCondition(w)
  /\ \E o \in PublishOutcomes :
       IF o = "ok"
       THEN \E s \in SleepLengths :
              LET c == Cmd(w, "motion", twist_msg.lin, twist_msg.ang) IN
              /\ workers' = [workers EXCEPT
                               ![w].sent = Recorded(@, c.site),
                               ![w].elapsed = ClockAfter(@, s),
                               ![w].jit = @ \/ (s > Tick)]
              /\ chan_last' = c
              /\ faults' = faults
       ELSE /\ workers' = [workers EXCEPT ![w] = Ended(workers[w], "error")]
            /\ faults' = IF ChannelOpen THEN faults + 1 ELSE faults
            /\ chan_last' = chan_last
  /\ UNCHANGED << main_pc, main_i, main_sent, ui_pc, test_mode, velocity, duration,
                  fed, nworkers, is_publishing, twist_msg, ui_lock, console, ctx_ok,
                  node_destroyed, shutdown_calls, interrupted, exited >>

\* The loop condition is false: fall through to self.stop_robot().
WLoopExit(w) ==
  /\ ~exited
  /\ workers[w].pc = "loop"
  /\ ~LoopCondition(w)
  /\ workers' = [workers EXCEPT
                   ![w].pc = "stop", ![w].i = 0,
                   ![w].exit = IF is_publishing THEN "elapsed" ELSE "cancelled"]
  /\ UNCHANGED << main_pc, main_i, main_sent, ui_pc, test_mode, velocity, duration,
                  fed, nworkers, is_publishing, twist_msg, ui_lock, console, ctx_ok,
                  node_destroyed, shutdown_calls, chan_last, faults, interrupted,
                  exited >>

\* stop_robot() on the worker: one iteration of `for _ in range(5)`:
\* publish(stop_msg); time.sleep(0.1).  After the last one stop_robot returns.
\* These sleeps are taken at their nominal length: a longer one only adds to
\* the elapsed time that is reported afterwards.
WStop(w) ==
  /\ ~exited
  /\ workers[w].pc = "stop"
  /\ workers[w].i < StopCount
  /\ \E o \in PublishOutcomes :
       IF o = "ok"
       THEN LET c == Cmd(w, "stop", StopMsg.lin, StopMsg.ang) IN
              /\ workers' = [workers EXCEPT
                               ![w].sent = Append(@, c.site),
                               ![w].elapsed = @ + Tick,
                               ![w].i = @ + 1,
                               ![w].pc = IF workers[w].i + 1 = StopCount
                                         THEN "report" ELSE "stop"]
              /\ chan_last' = c
              /\ faults' = faults
       ELSE /\ workers' = [workers EXCEPT ![w] = Ended(workers[w], "error")]
            /\ faults' = IF ChannelOpen THEN faults + 1 ELSE faults
            /\ chan_last' = chan_last
  /\ UNCHANGED << main_pc, main_i, main_sent, ui_pc, test_mode, velocity, duration,
                  fed, nworkers, is_publishing, twist_msg, ui_lock, console, ctx_ok,
                  node_destroyed, shutdown_calls, interrupted, exited >>

\* with self.ui_lock: print('Test completed! Published for {time.time() - start_time}')
WReport(w) ==
  /\ ~exited
  /\ workers[w].pc = "report"
  /\ ui_lock = "free"
  /\ console' = Say("worker", "Test completed! Published for", TRUE)
  /\ workers' = [workers EXCEPT ![w].pc = "finish",
                                ![w].reported = workers[w].elapsed]
  /\ UNCHANGED << main_pc, main_i, main_sent, ui_pc, test_mode, velocity, duration,
                  fed, nworkers, is_publishing, twist_msg, ui_lock, ctx_ok,
                  node_destroyed, shutdown_calls, chan_last, faults, interrupted,
                  exited >>

\* self.is_publishing = False; the thread ends.
WFinish(w) ==
  /\ ~exited
  /\ workers[w].pc = "finish"
  /\ is_publishing' = FALSE
  /\ workers' = [workers EXCEPT ![w] = Ended(workers[w], "return")]
  /\ UNCHANGED << main_pc, main_i, main_sent, ui_pc, test_mode, velocity, duration,
                  fed, nworkers, twist_msg, ui_lock, console, ctx_ok, node_destroyed,
                  shutdown_calls, chan_last, faults, interrupted, exited >>

Worker(w) ==
  \/ WBegin(w)
  \/ WAnnounce(w)
  \/ WLoopIter(w)
  \/ WLoopExit(w)
  \/ WStop(w)
  \/ WReport(w)
  \/ WFinish(w)

\* ------------------------------------------------ interface: user_interface
\* get_test_mode(): print the menu (no lock), read a choice, map it or re-prompt.
ModeOf(choice) ==
  CASE choice = "1" -> "linear"
    [] choice = "2" -> "angular"
    [] choice = "3" -> "exit"
    [] OTHER        -> "invalid"

\* self.test_mode = self.get_test_mode(), then the branch on 'exit'.
UiMode ==
  /\ ~exited
  /\ ui_pc = "mode"
  /\ \E s \in ModeLines :
       LET m == ModeOf(Strip(s)) IN
       IF m = "invalid"
       THEN /\ console' = Say("ui", "Invalid choice", FALSE)
            /\ UNCHANGED << test_mode, ui_pc >>
       ELSE /\ console' = Say("ui", "Choose test mode", FALSE)
            /\ test_mode' = m
            /\ ui_pc' = IF m = "exit" THEN "exit_shutdown" ELSE "loop_top"
  /\ UNCHANGED << main_pc, main_i, main_sent, velocity, duration, fed, workers,
                  nworkers, is_publishing, twist_msg, ui_lock, ctx_ok,
                  node_destroyed, shutdown_calls, chan_last, faults, interrupted,
                  exited >>

\* if self.test_mode == 'exit': rclpy.shutdown(); return
UiExitShutdown ==
  /\ ~exited
  /\ ui_pc = "exit_shutdown"
  /\ shutdown_calls' = shutdown_calls + 1
  /\ ctx_ok' = FALSE
  /\ ui_pc' = "done"
  /\ UNCHANGED << main_pc, main_i, main_sent, test_mode, velocity, duration, fed,
                  workers, nworkers, is_publishing, twist_msg, ui_lock, console,
                  node_destroyed, chan_last, faults, interrupted, exited >>

\* while rclpy.ok():
UiLoopTop ==
  /\ ~exited
  /\ ui_pc = "loop_top"
  /\ ui_pc' = IF ctx_ok THEN "collect" ELSE "final_print"
  /\ UNCHANGED << main_pc, main_i, main_sent, test_mode, velocity, duration, fed,
                  workers, nworkers, is_publishing, twist_msg, ui_lock, console,
                  ctx_ok, node_destroyed, shutdown_calls, chan_last, faults,
                  interrupted, exited >>

\* get_*_test_parameters(): top of `while True`: with self.ui_lock: print(header)
UiCollectEnter ==
  /\ ~exited
  /\ ui_pc = "collect"
  /\ ui_lock = "free"
  /\ ui_lock' = "ui"
  /\ console' = Say("ui", IF test_mode = "linear" THEN "--- Linear Velocity Test ---"
                          ELSE "--- Angular Velocity Test ---", TRUE)
  /\ ui_pc' = "ask_vel"
  /\ UNCHANGED << main_pc, main_i, main_sent, test_mode, velocity, duration, fed,
                  workers, nworkers, is_publishing, twist_msg, ctx_ok,
                  node_destroyed, shutdown_calls, chan_last, faults, interrupted,
                  exited >>

Remember(s, cap) == IF Len(fed) < cap THEN Append(fed, s) ELSE fed

\* velocity = float(input(...)); ValueError leaves the with block, prints and
\* goes back to the top of the loop.
UiVelocity(lines, cap) ==
  /\ ~exited
  /\ ui_pc = "ask_vel"
  /\ \E s \in lines :
       LET x == ParseFloat(s) IN
       /\ fed' = Remember(s, cap)
       /\ IF x.k = "err"
          THEN /\ ui_lock' = "free"
               /\ console' = Say("ui", "Please enter valid numbers!", TRUE)
               /\ ui_pc' = "collect"
               /\ UNCHANGED velocity
          ELSE /\ velocity' = x
               /\ ui_pc' = "ask_dur"
               /\ UNCHANGED << ui_lock, console >>
  /\ UNCHANGED << main_pc, main_i, main_sent, test_mode, duration, workers,
                  nworkers, is_publishing, twist_msg, ctx_ok, node_destroyed,
                  shutdown_calls, chan_last, faults, interrupted, exited >>

\* duration = float(input(...)); if duration <= 0: print; continue;
\* return velocity, duration
UiDuration(lines, cap) ==
  /\ ~exited
  /\ ui_pc = "ask_dur"
  /\ \E s \in lines :
       LET x == ParseFloat(s) IN
       /\ fed' = Remember(s, cap)
       /\ ui_lock' = "free"
       /\ IF x.k = "err"
          THEN /\ console' = Say("ui", "Please enter valid numbers!", TRUE)
               /\ ui_pc' = "collect"
               /\ UNCHANGED duration
          ELSE /\ duration' = x
               /\ IF LeZero(x)
                  THEN /\ console' = Say("ui", "Duration must be positive!", TRUE)
                       /\ ui_pc' = "collect"
                  ELSE /\ ui_pc' = "start"
                       /\ UNCHANGED console
  /\ UNCHANGED << main_pc, main_i, main_sent, test_mode, velocity, workers,
                  nworkers, is_publishing, twist_msg, ctx_ok, node_destroyed,
                  shutdown_calls, chan_last, faults, interrupted, exited >>

\* args=(velocity, 0.0, duration) for 'linear', (0.0, velocity, duration) for 'angular'
SessionArgsBoth == [lin |-> velocity, ang |-> velocity, dur |-> duration]
SessionArgs ==
  IF test_mode = "linear"
  THEN [lin |-> velocity, ang |-> Num(0), dur |-> duration]
  ELSE [lin |-> Num(0), ang |-> velocity, dur |-> duration]

\* test_thread = threading.Thread(target=self.publish_velocity, ...); test_thread.start()
\* The values are handed to the thread; the interface's own copies are not
\* read again before the next collector call assigns them.
UiStart ==
  /\ ~exited
  /\ ui_pc = "start"
  /\ nworkers < MaxSessions
  /\ nworkers' = nworkers + 1
  /\ workers' = [w \in WorkerIds |->
                   IF w = nworkers + 1
                   THEN [NoWorker EXCEPT !.pc = "begin", !.lin = SessionArgs.lin,
                                         !.ang = SessionArgs.ang,
                                         !.dur = SessionArgs.dur,
                                         !.busy = is_publishing]
                   ELSE IF w < nworkers THEN Forgotten
                   ELSE workers[w]]
  /\ ui_pc' = "join"
  /\ velocity' = None
  /\ duration' = None
  /\ UNCHANGED << main_pc, main_i, main_sent, test_mode, fed,
                  is_publishing, twist_msg, ui_lock, console, ctx_ok,
                  node_destroyed, shutdown_calls, chan_last, faults, interrupted,
                  exited >>

\* test_thread.join() returns once the thread has ended (returned or raised).
JoinReturnsEarly(w) == TRUE
JoinReturns(w) == ~Alive(w)

UiJoin ==
  /\ ~exited
  /\ ui_pc = "join"
  /\ JoinReturns(nworkers)
  /\ ui_pc' = "ask_continue"
  /\ UNCHANGED << main_pc, main_i, main_sent, test_mode, velocity, duration, fed,
                  workers, nworkers, is_publishing, twist_msg, ui_lock, console,
                  ctx_ok, node_destroyed, shutdown_calls, chan_last, faults,
                  interrupted, exited >>

\* with self.ui_lock: print("Test completed!") ... the prompt is read under the lock
UiContinuePrompt ==
  /\ ~exited
  /\ ui_pc = "ask_continue"
  /\ ui_lock = "free"
  /\ ui_lock' = "ui"
  /\ console' = Say("ui", "Test completed!", TRUE)
  /\ ui_pc' = "read_continue"
  /\ UNCHANGED << main_pc, main_i, main_sent, test_mode, velocity, duration, fed,
                  workers, nworkers, is_publishing, twist_msg, ctx_ok,
                  node_destroyed, shutdown_calls, chan_last, faults, interrupted,
                  exited >>

\* continue_choice = input(...).strip().lower(); if not in ['y', 'yes']: break
UiContinue ==
  /\ ~exited
  /\ ui_pc = "read_continue"
  /\ ui_lock' = "free"
  /\ \E s \in ContinueLines :
       ui_pc' = IF StripLower(s) \in {"y", "yes"} THEN "loop_top" ELSE "final_print"
  /\ UNCHANGED << main_pc, main_i, main_sent, test_mode, velocity, duration, fed,
                  workers, nworkers, is_publishing, twist_msg, console, ctx_ok,
                  node_destroyed, shutdown_calls, chan_last, faults, interrupted,
                  exited >>

\* with self.ui_lock: print('Shutting down velocity test node...')
UiFinalPrint ==
  /\ ~exited
  /\ ui_pc = "final_print"
  /\ ui_lock = "free"
  /\ console' = Say("ui", "Shutting down velocity test node...", TRUE)
  /\ ui_pc' = "final_shutdown"
  /\ UNCHANGED << main_pc, main_i, main_sent, test_mode, velocity, duration, fed,
                  workers, nworkers, is_publishing, twist_msg, ui_lock, ctx_ok,
                  node_destroyed, shutdown_calls, chan_last, faults, interrupted,
                  exited >>

\* rclpy.shutdown() at the end of user_interface
UiFinalShutdown ==
  /\ ~exited
  /\ ui_pc = "final_shutdown"
  /\ shutdown_calls' = shutdown_calls + 1
  /\ ctx_ok' = FALSE
  /\ ui_pc' = "done"
  /\ UNCHANGED << main_pc, main_i, main_sent, test_mode, velocity, duration, fed,
                  workers, nworkers, is_publishing, twist_msg, ui_lock, console,
                  node_destroyed, chan_last, faults, interrupted, exited >>

\* ------------------------------------------------------------ main thread
\* Positions of user_interface() inside get_linear/angular_test_parameters().
Collecting == {"collect", "ask_vel", "ask_dur"}

\* SIGINT while main() spins: KeyboardInterrupt is raised in the main thread and
\* control reaches the finally block.  A worker that is in its timed loop at
\* that moment is marked (hit) for the record.  rclpy's own SIGINT handler, when it is
\* installed, also invalidates the context before the exception is seen.
Interrupt ==
  /\ ~exited
  /\ main_pc = "spin"
  /\ interrupted = "no"
  /\ interrupted' = IF ui_pc \in Collecting THEN "collecting" ELSE "other"
  /\ \E handler_shuts_down \in BOOLEAN :
       ctx_ok' = (ctx_ok /\ ~handler_shuts_down)
  /\ main_pc' = "stop"
  /\ main_i' = 0
  /\ workers' = [w \in WorkerIds |->
                   IF workers[w].pc = "loop" THEN [workers[w] EXCEPT !.hit = TRUE]
                   ELSE workers[w]]
  /\ UNCHANGED << main_sent, ui_pc, test_mode, velocity, duration, fed,
                  nworkers, is_publishing, twist_msg, ui_lock, console,
                  node_destroyed, shutdown_calls, chan_last, faults, exited >>

\* while rclpy.ok(): ... falls through to the finally block once the context is down.
MainLoopExit ==
  /\ ~exited
  /\ main_pc = "spin"
  /\ ~ctx_ok
  /\ main_pc' = "stop"
  /\ main_i' = 0
  /\ UNCHANGED << main_sent, ui_pc, test_mode, velocity, duration, fed, workers,
                  nworkers, is_publishing, twist_msg, ui_lock, console, ctx_ok,
                  node_destroyed, shutdown_calls, chan_last, faults, interrupted,
                  exited >>

\* finally: node.stop_robot(): one iteration of `for _ in range(5)`.  A publish
\* that raises leaves the finally block: destroy_node and shutdown are skipped.
MainStop ==
  /\ ~exited
  /\ main_pc = "stop"
  /\ main_i < StopCount
  /\ \E o \in PublishOutcomes :
       IF o = "ok"
       THEN LET c == Cmd(0, "stop", StopMsg.lin, StopMsg.ang) IN
            /\ main_sent' = Append(main_sent, c.site)
            /\ chan_last' = c
            /\ main_i' = main_i + 1
            /\ main_pc' = IF main_i + 1 = StopCount THEN "destroy" ELSE "stop"
            /\ faults' = faults
       ELSE /\ main_pc' = "exited"
            /\ faults' = IF ChannelOpen THEN faults + 1 ELSE faults
            /\ UNCHANGED << main_sent, chan_last, main_i >>
  /\ UNCHANGED << ui_pc, test_mode, velocity, duration, fed, workers, nworkers,
                  is_publishing, twist_msg, ui_lock, console, ctx_ok,
                  node_destroyed, shutdown_calls, interrupted, exited >>

\* node.destroy_node()
MainDestroy ==
  /\ ~exited
  /\ main_pc = "destroy"
  /\ node_destroyed' = TRUE
  /\ main_pc' = "shutdown"
  /\ UNCHANGED << main_i, main_sent, ui_pc, test_mode, velocity, duration, fed,
                  workers, nworkers, is_publishing, twist_msg, ui_lock, console,
                  ctx_ok, shutdown_calls, chan_last, faults, interrupted, exited >>

\* rclpy.shutdown() at the end of main()
MainShutdown ==
  /\ ~exited
  /\ main_pc = "shutdown"
  /\ shutdown_calls' = shutdown_calls + 1
  /\ ctx_ok' = FALSE
  /\ main_pc' = "exited"
  /\ UNCHANGED << main_i, main_sent, ui_pc, test_mode, velocity, duration, fed,
                  workers, nworkers, is_publishing, twist_msg, ui_lock, console,
                  node_destroyed, chan_last, faults, interrupted, exited >>

\* The interpreter exits once main() has ended and every non-daemon thread (the
\* workers) has ended; the daemon interface thread is dropped where it stands,
\* with its locals and the lock it may hold.
ProcessExit ==
  /\ ~exited
  /\ main_pc = "exited"
  /\ \A w \in WorkerIds : ~Alive(w)
  /\ exited' = TRUE
  /\ ui_pc' = IF ui_pc = "done" THEN "done" ELSE "killed"
  /\ velocity' = None
  /\ duration' = None
  /\ ui_lock' = "free"
  /\ UNCHANGED << main_pc, main_i, main_sent, test_mode,
                  fed, workers, nworkers, is_publishing, twist_msg,
                  console, ctx_ok, node_destroyed, shutdown_calls, chan_last,
                  faults, interrupted >>

\* ---------------------------------------------------------- specification
Next ==
  \/ UiMode
  \/ UiExitShutdown
  \/ UiLoopTop
  \/ UiCollectEnter
  \/ UiVelocity(VelocityLines, 0)
  \/ UiDuration(DurationLines, 0)
  \/ UiStart
  \/ UiJoin
  \/ UiContinuePrompt
  \/ UiContinue
  \/ UiFinalPrint
  \/ UiFinalShutdown
  \/ \E w \in WorkerIds : Worker(w)
  \/ Interrupt
  \/ MainLoopExit
  \/ MainStop
  \/ MainDestroy
  \/ MainShutdown
  \/ ProcessExit

Spec == Init /\ [][Next]_vars

\* The parameter collector alone, fed the literal console lines of the
\* input-robustness scenario, with the lines it consumed remembered in fed.
InitCollect ==
  /\ main_pc = "spin"
  /\ main_i = 0
  /\ main_sent = << >>
  /\ ui_pc = "collect"
  /\ test_mode \in {"linear", "angular"}
  /\ velocity = None
  /\ duration = None
  /\ fed = << >>
  /\ workers = [w \in WorkerIds |-> NoWorker]
  /\ nworkers = 0
  /\ is_publishing = FALSE
  /\ twist_msg = [lin |-> Num(0), ang |-> Num(0)]
  /\ ui_lock = "free"
  /\ console = Say("ui", "Choose test mode", FALSE)
  /\ ctx_ok = TRUE
  /\ node_destroyed = FALSE
  /\ shutdown_calls = 0
  /\ chan_last = NoCmd
  /\ faults = 0
  /\ interrupted = "no"
  /\ exited = FALSE

NextCollect ==
  \/ UiCollectEnter
  \/ UiVelocity(LiteralLines, MaxFed)
  \/ UiDuration(LiteralLines, MaxFed)

SpecCollect == InitCollect /\ [][NextCollect]_vars

\* The program fed durations that include "inf", under fair scheduling: a
\* thread that can take a step that needs no console input eventually takes it.
WorkerNext == \E w \in WorkerIds : Worker(w)

MainNext == MainLoopExit \/ MainStop \/ MainDestroy \/ MainShutdown \/ ProcessExit

NextLive ==
  \/ UiMode
  \/ UiExitShutdown
  \/ UiLoopTop
  \/ UiCollectEnter
  \/ UiVelocity(VelocityLines, 0)
  \/ UiDuration(EndlessLines, 0)
  \/ UiStart
  \/ UiJoin
  \/ UiContinuePrompt
  \/ UiContinue
  \/ UiFinalPrint
  \/ UiFinalShutdown
  \/ WorkerNext
  \/ Interrupt
  \/ MainNext

SpecLive ==
  /\ Init
  /\ [][NextLive]_vars
  /\ WF_vars(WorkerNext)
  /\ WF_vars(UiJoin \/ UiContinuePrompt)
  /\ WF_vars(MainNext)

\* ------------------------------------------------------------ properties
StopsOf(seq)   == Cardinality({i \in DOMAIN seq : seq[i] = "stop"})
MotionsOf(seq) == Cardinality({i \in DOMAIN seq : seq[i] = "motion"})

\* floor(duration * 10) and ceil(duration * 10), duration in units of 0.05 s
FloorTicks(d) == d.v \div Tick
CeilTicks(d)  == (d.v + Tick - 1) \div Tick

\* The worker has left the timed loop for good: it is past stop_robot or ended.
LeftPublish(w) == workers[w].pc \in {"report", "finish", "done", "dead"}

\* C1: on every exit path of the timed loop (duration elapsed, is_publishing
\* seen False, publish raising) the worker has sent exactly 5 stop commands by
\* the time publish_velocity is over.
C1_StopOnEveryExit ==
  \A w \in WorkerIds : LeftPublish(w) => StopsOf(workers[w].sent) = StopCount

\* C2: on every termination path the stop sequence (5 zero commands of main's
\* finally block) has been sent when the process exits.  Stated here for the
\* paths on which the interface ends the program (Exit chosen, no answered),
\* with no interrupt and no failure of the channel itself.
C2_StopBeforeExit ==
  (exited /\ faults = 0 /\ interrupted = "no") => Len(main_sent) = StopCount

\* C3: at most one session worker is executing publish_velocity at any time.
C3_AtMostOneWorker ==
  Cardinality({w \in WorkerIds : Alive(w)}) <= 1

\* C3 witness: a second session is running, the first one having been joined.
C3_Witness ==
  /\ nworkers = 2
  /\ workers[2].pc = "loop"
  /\ Len(workers[2].sent) > 0
  /\ workers[1].pc = "done"

\* C4: a session started while is_publishing is True is rejected: it sends no
\* command and does not touch the running session's command.
C4_BusyStartRejected ==
  \A w \in WorkerIds :
    workers[w].busy => workers[w].sent = << >>

\* C5: a worker that was in its timed loop when the interrupt arrived leaves the
\* loop as cancelled (before its duration has elapsed) and has sent its 5 stop
\* commands when it ends, the channel itself not having failed.
C5_InterruptCancelsThenStops ==
  \A w \in WorkerIds :
    (workers[w].hit /\ ~Alive(w) /\ faults = 0) =>
       (workers[w].exit = "cancelled" /\ StopsOf(workers[w].sent) = StopCount)

\* C6: a session writes its motion commands first and its stop commands last,
\* and a later session writes nothing before the earlier session's 5 stop
\* commands are all out.
C6_MotionThenStopThenNext ==
  /\ \A w \in WorkerIds : \A i, j \in DOMAIN workers[w].sent :
        (i < j /\ workers[w].sent[i] = "stop") => workers[w].sent[j] = "stop"
  /\ \A w1, w2 \in WorkerIds :
        (w2 = w1 + 1 /\ workers[w2].sent # << >>) =>
           StopsOf(workers[w1].sent) = StopCount

\* A worker whose timed loop ran until the duration had elapsed, with a numeric
\* duration, seen between the end of the loop and the end of the thread.
RanToDuration(w) ==
  /\ Alive(w)
  /\ workers[w].exit = "elapsed"
  /\ IsNum(workers[w].dur)

\* C7 (as stated): an uncancelled session publishes at least floor(duration*10)
\* motion commands whenever every per-tick sleep lasts at least 0.1 s.
C7_AtLeastFloor ==
  \A w \in WorkerIds :
    RanToDuration(w) => MotionsOf(workers[w].sent) >= FloorTicks(workers[w].dur)

\* C7 (amended): such a session publishes at most ceil(duration*10) motion
\* commands, and exactly ceil(duration*10), which is at least
\* floor(duration*10), when every iteration lasted exactly 0.1 s.
C7_TickCount ==
  \A w \in WorkerIds :
    RanToDuration(w) =>
      /\ MotionsOf(workers[w].sent) <= CeilTicks(workers[w].dur)
      /\ ~workers[w].jit =>
           /\ MotionsOf(workers[w].sent) = CeilTicks(workers[w].dur)
           /\ MotionsOf(workers[w].sent) >= FloorTicks(workers[w].dur)

\* C7 witness: a session of 0.15 s ran its loop to the end on exact ticks and
\* published 2 commands, one more than floor(1.5).
C7_Witness ==
  \E w \in WorkerIds :
    /\ RanToDuration(w)
    /\ ~workers[w].jit
    /\ workers[w].dur = Num(3)
    /\ MotionsOf(workers[w].sent) = 2

\* C8: the elapsed time an uncancelled session reports is within one tick
\* (0.1 s) of the requested duration; stated for the sessions whose every sleep
\* lasted exactly 0.1 s.
C8_ReportedWithinTick ==
  \A w \in WorkerIds :
    (RanToDuration(w) /\ workers[w].pc = "finish" /\ ~workers[w].jit) =>
       /\ workers[w].reported - workers[w].dur.v <= Tick
       /\ workers[w].dur.v - workers[w].reported <= Tick

\* C9: fed "abc", "3.0", "-1", "2.5" in that order, the collector has returned
\* (3.0, 2.5).
C9_LiteralScenario ==
  fed = << "abc", "3.0", "-1", "2.5" >> =>
     (ui_pc = "start" /\ velocity = Num(60) /\ duration = Num(50))

\* C10: every session that is started has a numeric duration greater than 0.
C10_PositiveDuration ==
  \A w \in WorkerIds :
    Alive(w) => (IsNum(workers[w].dur) /\ workers[w].dur.v > 0)

\* Every command the channel accepts is recorded in chan_last when it is
\* written, so a predicate on chan_last that holds in every reachable state
\* holds of every command written.
NonZero(x) == ~IsZero(x)

C12_CommandIsMagnitude ==
  \A w \in WorkerIds :
    (chan_last.by = w /\ chan_last.site = "motion" /\ Alive(w)) =>
       /\ test_mode = "linear" =>
            (chan_last.lin = workers[w].lin /\ chan_last.ang = Num(0))
       /\ test_mode = "angular" =>
            (chan_last.ang = workers[w].ang /\ chan_last.lin = Num(0))
       /\ test_mode \in {"linear", "angular"}

\* C12 witness: the second tick of a linear session of magnitude -1.0.
C12_Witness ==
  \E w \in WorkerIds :
    /\ workers[w].pc = "loop"
    /\ MotionsOf(workers[w].sent) = 2
    /\ test_mode = "linear"
    /\ workers[w].lin = Num(-20)
    /\ chan_last = Cmd(w, "motion", Num(-20), Num(0))

\* C13: after a publish of the current session has raised on an open channel
\* the interface loop is over: the operator is neither asked to continue nor
\* taken back to the parameter prompts.
C13_ChannelFailureFatal ==
  (nworkers > 0 /\ workers[nworkers].exit = "error" /\ interrupted = "no") =>
     ui_pc \notin {"read_continue", "loop_top", "collect", "ask_vel", "ask_dur",
                   "start"}

\* C14: every console write of the interface thread and of a worker is made
\* while holding ui_lock, and when the continue prompt is shown the session's
\* completion line has been printed.
C14_ConsoleUnderLock ==
  /\ console.by \in {"ui", "worker"} => console.locked
  /\ ui_pc = "read_continue" => workers[nworkers].pc = "done"

\* C15: after an interrupt that arrives during parameter collection the pending
\* session (and any later one) writes no non-zero motion command.
C15_InterruptAbortsCollection ==
  (/\ interrupted = "collecting"
   /\ nworkers > 0
   /\ ui_pc = "join"
   /\ chan_last.by = nworkers
   /\ chan_last.site = "motion") => IsZeroCmd(chan_last)

\* stop_robot() has returned: on the main thread, and on a worker.
MainStopReturned == main_pc \in {"destroy", "shutdown"}
WorkerStopReturned(w) == workers[w].pc \in {"report", "finish", "done"}

\* A step of stop_robot(), by the main thread or by a worker.
StopRobotStep ==
  \/ main_pc = "stop" /\ (main_pc' # "stop" \/ main_i' # main_i)
  \/ \E w \in WorkerIds :
       workers[w].pc = "stop" /\ workers'[w] # workers[w]

FinalStopBegun == Len(main_sent) > 0

\* C18: once the main thread's final stop sequence has begun no worker writes
\* a non-zero command (the channel itself not having failed).
C18_NoMotionAfterFinalStop ==
  [][(FinalStopBegun /\ faults' = 0) =>
       \A w \in WorkerIds :
         (/\ Len(workers'[w].sent) = Len(workers[w].sent) + 1
          /\ workers'[w].sent[Len(workers'[w].sent)] = "motion")
         => IsZeroCmd(chan_last')]_vars

\* C19: when the interface thread ends the program (no interrupt), the 5 zero
\* commands of main's finally block are out by the time rclpy.shutdown() is
\* invoked, and it is invoked at most once.
C19_StopBeforeShutdown ==
  interrupted = "no" =>
     /\ shutdown_calls > 0 => Len(main_sent) = StopCount
     /\ shutdown_calls <= 1

\* C20: is_publishing is False whenever no worker is alive: before the first
\* session, after a session, and after a worker ended by a channel error.
C20_FlagTracksWorker ==
  (\A w \in WorkerIds : ~Alive(w)) => ~is_publishing

\* The session was cut short from outside: the channel failed or a SIGINT
\* was delivered.
CutShort == faults > 0 \/ interrupted # "no"

\* C17: every started session completes: its worker returns from
\* publish_velocity, the interface thread's join then returns and the continue
\* prompt is reached (unless the session was cut short from outside), and the
\* interface thread never waits on join while holding ui_lock.
C17_SessionCompletes ==
  /\ \A w \in WorkerIds :
        (workers[w].pc = "begin") ~> (workers[w].pc = "done" \/ CutShort)
  /\ (ui_pc = "join") ~> (ui_pc = "read_continue" \/ CutShort)
  /\ [](ui_pc = "join" => ui_lock # "ui")

=============================================================================
